---- MODULE Spec2Model ----
(***************************************************************************)
(* Model of exploratory_script.py: fetch_loans (one GraphQL POST per call, *)
(* every failure collapsed to an empty list) and get_youth_loans (the      *)
(* sequential page loop that filters LoanDirect records by age).           *)
(***************************************************************************)
EXTENDS Integers, Sequences, FiniteSets, TLC

\* ---------------------------------------------------------------- bounds
MaxPages == 2
MaxLoans == 2

\* ------------------------------------------------------- program constants
MinAge == 18
MaxAge == 26
\* Python None, what loan.get("ageAtTimeOfLoan") yields for a null or absent key
None == -1
\* marks a record that has no ageAtTimeOfLoan key at all
NoKey == -2

Statuses == {200, 403, 500}

\* ------------------------------------------------------------ loan records
Loan(t, i, n, a) == [typename |-> t, id |-> i, name |-> n, age |-> a]

DirectAges == {NoKey, None, 17, 18, 26, 27}
OtherAges == {NoKey, 22}

Records ==
    {Loan("LoanDirect", "L1", "A", a) : a \in DirectAges}
    \cup {Loan("LoanBasketItem", "L2", "B", a) : a \in OtherAges}

SeqsUpTo(S, n) == UNION {[1..k -> S] : k \in 0..n}

\* ------------------------------------------------------------- JSON values
Arr(s) == [type |-> "array", items |-> s]
Null == [type |-> "null", items |-> <<>>]
Num == [type |-> "number", items |-> <<>>]
Missing == [type |-> "absent", items |-> <<>>]
EmptyList == Arr(<<>>)

SampleValues == Arr(<<Loan("LoanDirect", "L1", "A", 18)>>)

Body(j, e, v) == [json |-> j, errors |-> e, values |-> v]

\* what the server (or the network) can answer to one POST
Responses ==
    {[outcome |-> "exception", status |-> 0, body |-> Body(FALSE, FALSE, Missing)]}
    \cup {[outcome |-> "response", status |-> s, body |-> b] :
            s \in Statuses \ {200},
            b \in {Body(FALSE, FALSE, Missing), Body(TRUE, FALSE, SampleValues)}}
    \cup {[outcome |-> "response", status |-> 200, body |-> b] :
            b \in {Body(FALSE, FALSE, Missing),
                   Body(TRUE, TRUE, Missing),
                   Body(TRUE, TRUE, SampleValues)}}
    \cup {[outcome |-> "response", status |-> 200, body |-> Body(TRUE, FALSE, v)] :
            v \in {Missing, Null, Num} \cup {Arr(s) : s \in SeqsUpTo(Records, MaxLoans)}}

NoResponse == [outcome |-> "none", status |-> 0, body |-> Body(FALSE, FALSE, Missing)]

\* ------------------------------------------------------------------ stdout
Line(k, n) == [kind |-> k, n |-> n]

\* ------------------------------------------------------------- fetch_loans
Failed(msg) == [ret |-> EmptyList, printed |-> msg]

\* fetch_loans without the "status_code != 200" branch of lines 49-52
FetchLoansOnly403(r) ==
    IF r.outcome = "exception"
    THEN Failed(<<Line("Request failed", 0)>>)
    ELSE IF r.status = 403
    THEN Failed(<<Line("Blocked", 403)>>)
    ELSE IF ~r.body.json
    THEN Failed(<<Line("Request failed", 0)>>)
    ELSE IF r.body.errors
    THEN Failed(<<Line("GraphQL Error", 0)>>)
    ELSE IF r.body.values.type = "absent"
    THEN Failed(<<Line("Request failed", 0)>>)
    ELSE [ret |-> r.body.values, printed |-> <<>>]

\* fetch_loans without the "errors" test of lines 56-58
FetchLoansNoErrorsTest(r) ==
    IF r.outcome = "exception"
    THEN Failed(<<Line("Request failed", 0)>>)
    ELSE IF r.status = 403
    THEN Failed(<<Line("Blocked", 403)>>)
    ELSE IF r.status # 200
    THEN Failed(<<Line("STATUS", r.status), Line("text", 0)>>)
    ELSE IF ~r.body.json
    THEN Failed(<<Line("Request failed", 0)>>)
    ELSE IF r.body.values.type = "absent"
    THEN Failed(<<Line("Request failed", 0)>>)
    ELSE [ret |-> r.body.values, printed |-> <<>>]

\* fetch_loans that keeps only the LoanDirect records of the values array
FetchLoansDirectOnly(r) ==
    IF r.outcome = "exception"
    THEN Failed(<<Line("Request failed", 0)>>)
    ELSE IF r.status = 403
    THEN Failed(<<Line("Blocked", 403)>>)
    ELSE IF r.status # 200
    THEN Failed(<<Line("STATUS", r.status), Line("text", 0)>>)
    ELSE IF ~r.body.json
    THEN Failed(<<Line("Request failed", 0)>>)
    ELSE IF r.body.errors
    THEN Failed(<<Line("GraphQL Error", 0)>>)
    ELSE IF r.body.values.type = "absent"
    THEN Failed(<<Line("Request failed", 0)>>)
    ELSE [ret |-> [type |-> r.body.values.type,
                   items |-> SelectSeq(r.body.values.items,
                                       LAMBDA l : l.typename = "LoanDirect")],
          printed |-> <<>>]

FetchLoans(r) ==
    IF r.outcome = "exception"
    THEN Failed(<<Line("Request failed", 0)>>)
    ELSE IF r.status = 403
    THEN Failed(<<Line("Blocked", 403)>>)
    ELSE IF r.status # 200
    THEN Failed(<<Line("STATUS", r.status), Line("text", 0)>>)
    ELSE IF ~r.body.json
    THEN Failed(<<Line("Request failed", 0)>>)
    ELSE IF r.body.errors
    THEN Failed(<<Line("GraphQL Error", 0)>>)
    ELSE IF r.body.values.type = "absent"
    THEN Failed(<<Line("Request failed", 0)>>)
    ELSE [ret |-> r.body.values, printed |-> <<>>]

\* --------------------------------------------------------- get_youth_loans
Get(loan) == IF loan.age = NoKey THEN None ELSE loan.age

Truthy(a) == a # None /\ a # 0

\* the age test of line 77 with an exclusive lower bound
IsYouthExclusive(loan) ==
    /\ loan.typename = "LoanDirect"
    /\ Truthy(Get(loan))
    /\ MinAge < Get(loan)
    /\ Get(loan) <= MaxAge

IsYouth(loan) ==
    /\ loan.typename = "LoanDirect"
    /\ Truthy(Get(loan))
    /\ MinAge <= Get(loan)
    /\ Get(loan) <= MaxAge

YouthLoan(loan) == [id |-> loan.id, name |-> loan.name, age |-> Get(loan)]

\* an accumulator that skips a loan whose id it already holds
AppendYouthOnce(acc, loan) ==
    IF \E i \in DOMAIN acc : acc[i].id = loan.id
    THEN acc
    ELSE Append(acc, YouthLoan(loan))

AppendYouth(acc, loan) == Append(acc, YouthLoan(loan))

NextPage(p) == p + 1

Iterable(v) == v.type = "array"

\* the records of one page that lines 74-82 are to keep, as YouthLoans
RECURSIVE YouthOf(_)
YouthOf(s) ==
    IF s = <<>> THEN <<>>
    ELSE LET l == Head(s)
         IN  (IF /\ l.typename = "LoanDirect"
                 /\ l.age \notin {NoKey, None}
                 /\ l.age >= 18
                 /\ l.age <= 26
              THEN <<[id |-> l.id, name |-> l.name, age |-> l.age]>>
              ELSE <<>>) \o YouthOf(Tail(s))

VARIABLES pc, pages, page, youth, loans, idx, resp, out,
          calls, posts, inflight, pauses, expected, result

vars == <<pc, pages, page, youth, loans, idx, resp, out,
          calls, posts, inflight, pauses, expected, result>>

Init ==
    /\ pc = "loop"
    /\ pages \in 0..MaxPages
    /\ page = 1
    /\ youth = <<>>
    /\ loans = EmptyList
    /\ idx = 1
    /\ resp = NoResponse
    /\ out = <<>>
    /\ calls = <<>>
    /\ posts = <<>>
    /\ inflight = 0
    /\ pauses = 0
    /\ expected = <<>>
    /\ result = <<>>

\* lines 70-72 and 23-43: print, call fetch_loans, issue the POST
Scan ==
    /\ pc = "loop"
    /\ page <= pages
    /\ out' = Append(out, Line("Scanning", page))
    /\ calls' = Append(calls, page)
    /\ posts' = Append(posts, page)
    /\ inflight' = inflight + 1
    /\ pc' = "waiting"
    /\ UNCHANGED <<pages, page, youth, loans, idx, resp, pauses, expected, result>>

\* lines 39-64: the POST completes (or raises) and fetch_loans returns
Respond ==
    /\ pc = "waiting"
    /\ \E r \in Responses :
        /\ resp' = r
        /\ loans' = FetchLoans(r).ret
        /\ out' = out \o FetchLoans(r).printed
        /\ expected' = expected \o YouthOf(FetchLoans(r).ret.items)
    /\ inflight' = inflight - 1
    /\ idx' = 1
    /\ pc' = "filter"
    /\ UNCHANGED <<pages, page, youth, calls, posts, pauses, result>>

\* line 74 on a value that is not iterable: TypeError leaves get_youth_loans
Raise ==
    /\ pc = "filter"
    /\ ~Iterable(loans)
    /\ pc' = "raised"
    /\ UNCHANGED <<pages, page, youth, loans, idx, resp, out,
                   calls, posts, inflight, pauses, expected, result>>

\* lines 74-82: one iteration of the inner loop
FilterStep ==
    /\ pc = "filter"
    /\ Iterable(loans)
    /\ idx <= Len(loans.items)
    /\ youth' = IF IsYouth(loans.items[idx])
                THEN AppendYouth(youth, loans.items[idx])
                ELSE youth
    /\ idx' = idx + 1
    /\ UNCHANGED <<pc, pages, page, loans, resp, out,
                   calls, posts, inflight, pauses, expected, result>>

\* line 74: the inner loop is exhausted
FilterDone ==
    /\ pc = "filter"
    /\ Iterable(loans)
    /\ idx > Len(loans.items)
    /\ pc' = "sleep"
    /\ UNCHANGED <<pages, page, youth, loans, idx, resp, out,
                   calls, posts, inflight, pauses, expected, result>>

\* line 84 and the loop increment of line 70
Sleep ==
    /\ pc = "sleep"
    /\ pauses' = pauses + 1
    /\ page' = NextPage(page)
    /\ pc' = "loop"
    /\ UNCHANGED <<pages, youth, loans, idx, resp, out,
                   calls, posts, inflight, expected, result>>

\* line 86
Return ==
    /\ pc = "loop"
    /\ page > pages
    /\ result' = youth
    /\ pc' = "done"
    /\ UNCHANGED <<pages, page, youth, loans, idx, resp, out,
                   calls, posts, inflight, pauses, expected>>

Next == Scan \/ Respond \/ Raise \/ FilterStep \/ FilterDone \/ Sleep \/ Return

Spec == Init /\ [][Next]_vars

\* ------------------------------------------------------------------ claims

\* the index of the last "Scanning page" line of stdout (0 when none)
LastScan ==
    CHOOSE i \in 0..Len(out) :
        /\ (i = 0 \/ out[i].kind = "Scanning")
        /\ \A j \in (i + 1)..Len(out) : out[j].kind # "Scanning"

\* fetch_loans has returned for the response held in resp
Returned == resp.outcome # "none" /\ pc # "waiting"

\* get_youth_loans is over, by return or by an exception
Ended == pc \in {"done", "raised"}

\* C1: each step of the inner loop appends the YouthLoan {id, name, age} of the
\* record it looks at if and only if the record is a LoanDirect whose age is
\* present and within [18, 26]; otherwise the accumulator is left alone.
C1_YouthIff ==
    [][(pc = "filter" /\ Iterable(loans) /\ idx <= Len(loans.items) /\ idx' = idx + 1) =>
        LET l == loans.items[idx]
        IN  IF /\ l.typename = "LoanDirect"
               /\ l.age # NoKey
               /\ l.age # None
               /\ l.age >= 18
               /\ l.age <= 26
            THEN youth' = Append(youth, [id |-> l.id, name |-> l.name, age |-> l.age])
            ELSE youth' = youth]_vars

C1_Witness ==
    /\ pc = "filter"
    /\ Iterable(loans)
    /\ Len(loans.items) = 2
    /\ idx = 3
    /\ loans.items[1].typename = "LoanDirect"
    /\ loans.items[1].age = 27
    /\ loans.items[2].typename = "LoanDirect"
    /\ loans.items[2].age = 18
    /\ youth = <<[id |-> "L1", name |-> "A", age |-> 18]>>

\* C2: for a response whose status is not 200, fetch_loans returns the empty
\* list and the lines it printed carry the status; nothing of the body is
\* returned.
C2_NonOkEmpty ==
    (Returned /\ resp.outcome = "response" /\ resp.status # 200) =>
        /\ loans = EmptyList
        /\ \E i \in (LastScan + 1)..Len(out) : out[i].n = resp.status

C2_Witness ==
    /\ pc = "filter"
    /\ resp.outcome = "response"
    /\ resp.status = 500
    /\ resp.body.json
    /\ resp.body.values = SampleValues
    /\ loans = EmptyList

\* C3: for a response whose body has a top-level errors field, fetch_loans
\* returns the empty list, also when the body carries a values array.
C3_ErrorsEmpty ==
    (Returned /\ resp.outcome = "response" /\ resp.body.json /\ resp.body.errors) =>
        loans = EmptyList

C3_Witness ==
    /\ pc = "filter"
    /\ resp.outcome = "response"
    /\ resp.status = 200
    /\ resp.body.json
    /\ resp.body.errors
    /\ resp.body.values = SampleValues
    /\ loans = EmptyList

\* C4: a run of get_youth_loans calls fetch_loans once per page 1..pages in
\* ascending order, with at most one request in flight and a pause before
\* every call but the first, whatever the fetches answer.
C4_OncePerPage ==
    /\ inflight <= 1
    /\ Len(calls) <= pauses + 1
    /\ \A i \in DOMAIN calls : calls[i] = i
    /\ (Ended /\ pages >= 1) => calls = [i \in 1..pages |-> i]

\* C5: no sequence of responses makes get_youth_loans abort: the run never
\* ends by an exception.
C5_NeverAborts == pc # "raised"

\* C6: whatever the outcome of the POST, what fetch_loans returns is a
\* sequence.
C6_ReturnsSequence == Returned => loans.type = "array"

\* C7: on success (status 200, JSON body without errors, values present)
\* fetch_loans returns the values of the body unchanged.
C7_ReturnsValues ==
    (/\ Returned
     /\ resp.outcome = "response"
     /\ resp.status = 200
     /\ resp.body.json
     /\ ~resp.body.errors
     /\ resp.body.values.type # "absent") => loans = resp.body.values

C7_Witness ==
    /\ pc = "filter"
    /\ resp.status = 200
    /\ resp.body.json
    /\ ~resp.body.errors
    /\ resp.body.values.type = "array"
    /\ Len(resp.body.values.items) = 2
    /\ resp.body.values.items[1].typename = "LoanBasketItem"
    /\ resp.body.values.items[2].age = 27
    /\ loans = resp.body.values

\* C8: every call of fetch_loans issues one POST, no page is requested twice,
\* and a run that is over has issued exactly pages POSTs.
C8_NoRetries ==
    /\ Len(posts) = Len(calls)
    /\ \A i, j \in DOMAIN posts : posts[i] = posts[j] => i = j
    /\ Ended => Len(posts) = pages

\* C9: between pages and at the return the accumulator is the concatenation,
\* in page order, of the youth records of the pages fetched so far; it only
\* grows at its end; nothing is deduplicated.
C9_Concatenation ==
    /\ [](pc \in {"sleep", "loop", "done"} => youth = expected)
    /\ [](pc = "done" => result = expected)
    /\ [][/\ Len(youth') >= Len(youth)
          /\ SubSeq(youth', 1, Len(youth)) = youth]_vars

C9_Witness ==
    /\ pc = "done"
    /\ pages = 2
    /\ Len(loans.items) = 1
    /\ Len(result) = 2
    /\ result[1].id = result[2].id

\* C10: a run that is over has paused exactly pages times, and a pause never
\* falls between a fetch and the filtering of its records.
C10_PauseAfterEveryPage ==
    /\ Ended => pauses = pages
    /\ pc \in {"waiting", "filter", "sleep"} => pauses = Len(calls) - 1
    /\ pc = "sleep" => idx > Len(loans.items)

====
